---- MODULE Spec2Model ----
(***************************************************************************)
(* Model of the signaling server of src/server/app.py: the                 *)
(* ConnectionManager (active_connections, user_rooms, user_info), the      *)
(* websocket_endpoint coroutine of every connection, the message handlers  *)
(* and the user_left tasks that disconnect() spawns.                       *)
(*                                                                         *)
(* A step of the model is what one coroutine runs between two awaits: the  *)
(* event loop runs one coroutine at a time, so the code between two awaits *)
(* is atomic, and every await (accept, send_text, receive_text) is a point *)
(* where any other coroutine may run.                                      *)
(***************************************************************************)
EXTENDS Integers, Sequences, FiniteSets, TLC

\* Number of WebSocket objects (each is served by one websocket_endpoint call).
NConns == 3
\* Number of distinct room ids the clients use.
NRooms == 2
\* Number of received frames the server may be handling at the same time.
MaxTalking == 1

Conns == 1..NConns
Rooms == 1..NRooms
NoConn == 0

\* user_data["id"] is a fresh uuid4 per endpoint call: the id of connection c is c.
\* UnknownId is a participant id that no connection carries.
UnknownId == NConns + 1
Ids == Conns \cup {UnknownId}
\* message.get("target") when the key is absent (None, falsy).
NoTarget == 0
NoUser == [id |-> 0]

user_data(c) == [id |-> c]

WebRTCTypes == {"offer", "answer", "ice-candidate"}

\* What a client may put on the wire: data is the text of one frame.
\*   json   : "object" (a JSON object), "invalid" (json.loads raises
\*            JSONDecodeError), "other" (valid JSON that is not an object)
\*   type   : message.get("type", "unknown")
\*   target : message.get("target")
\*   body   : whether the "message" key is present (chat)
Msg(j, t, g, b) == [json |-> j, type |-> t, target |-> g, body |-> b]

Inbound ==
    {Msg("object", t, NoTarget, FALSE) : t \in WebRTCTypes}
    \cup {Msg("object", "offer", g, FALSE) : g \in Ids}
    \cup {Msg("object", "media-state", NoTarget, FALSE)}
    \cup {Msg("object", "chat", NoTarget, b) : b \in BOOLEAN}
    \cup {Msg("object", "ping", NoTarget, FALSE)}
    \cup {Msg("object", "unknown", NoTarget, FALSE)}
    \cup {Msg("invalid", "none", NoTarget, FALSE)}
    \cup {Msg("other", "none", NoTarget, FALSE)}

VARIABLES
    active_connections, \* room id -> set of member connections (a dict of sets)
    set_id,             \* room id -> identity of the set object stored for it
    user_rooms,         \* connection -> room id
    user_info,          \* connection -> participant record
    ws_room,            \* connection -> the room_id path parameter of its endpoint
    pc,                 \* connection -> the await its endpoint coroutine is at
    frame,              \* connection -> the locals of its endpoint coroutine
    tasks,              \* connection -> the user_left tasks created for it
    ev,                 \* what the last step did (sends, finished broadcast)
    script,             \* the clients' scripted operations (<<>>: clients are free)
    pos,                \* number of scripted operations issued
    log                 \* the sends completed so far, kept for a scripted run

vars == <<active_connections, set_id, user_rooms, user_info, ws_room, pc, frame,
          tasks, ev, script, pos, log>>

Remove(f, k) == [x \in (DOMAIN f) \ {k} |-> f[x]]
Put(f, k, v) == [x \in (DOMAIN f) \cup {k} |-> IF x = k THEN v ELSE f[x]]

\* The locals of a coroutine that is inside connect, broadcast_to_room,
\* send_to_user or a handler.
NoFrame ==
    [room |-> 0, kind |-> "none", subj |-> 0, excl |-> NoConn, target |-> NoTarget,
     sid |-> 0, si_used |-> 0, pending |-> {}, visited |-> {}, cur |-> NoConn,
     disconnected |-> <<>>, roster |-> {}, before |-> {}, cont |-> "none"]

NoSend == [to |-> NoConn, kind |-> "none", subj |-> 0, target |-> NoTarget,
           roster |-> {}, ok |-> TRUE]

NoMsg == Msg("none", "none", NoTarget, FALSE)

\* The manager's state as one value, so that the synchronous calls of a step
\* (disconnect inside send_to_user, inside the clean-up loop, in finally)
\* compose. left records the connections disconnect() removed during the step.
Manager ==
    [ac |-> active_connections, so |-> set_id, ur |-> user_rooms, ui |-> user_info,
     tk |-> tasks, left |-> {}]


(***************************************************************************)
(* ConnectionManager.disconnect                                            *)
(***************************************************************************)

\* asyncio.create_task(self.broadcast_to_room(room_id, user_left, exclude=ws)):
\* the coroutine is scheduled and runs later.
\* before: the members that remain in the room when the task is created.
user_left_task(room_id, data, websocket, remaining) ==
    [pc |-> "scheduled",
     f  |-> [NoFrame EXCEPT !.room = room_id, !.kind = "user_left",
                            !.subj = data.id, !.excl = websocket,
                            !.before = remaining, !.cont = "task"]]

\* Lines 115-118.
remove_empty_room_never(M, room_id) == M

remove_empty_room(M, room_id) ==
    IF M.ac[room_id] = {}
    THEN [M EXCEPT !.ac = Remove(M.ac, room_id), !.so = Remove(M.so, room_id)]
    ELSE M

\* Lines 120-124.
clean_up_user_data_skipped(M, websocket) == M

clean_up_user_data(M, websocket) ==
    [M EXCEPT !.ur = Remove(M.ur, websocket), !.ui = Remove(M.ui, websocket)]

disconnect(M, websocket) ==
    IF websocket \notin DOMAIN M.ur THEN M
    ELSE
      LET room_id == M.ur[websocket]
          data    == IF websocket \in DOMAIN M.ui THEN M.ui[websocket] ELSE NoUser
          M1 == IF room_id \in DOMAIN M.ac
                THEN LET A == [M EXCEPT !.ac[room_id] = @ \ {websocket}]
                         B == IF data # NoUser
                              THEN [A EXCEPT !.tk[websocket] =
                                      Append(@, user_left_task(room_id, data, websocket,
                                                               A.ac[room_id]))]
                              ELSE A
                     IN remove_empty_room(B, room_id)
                ELSE M
      IN [clean_up_user_data(M1, websocket) EXCEPT !.left = @ \cup {websocket}]

(***************************************************************************)
(* ConnectionManager.connect, lines 51-67: no await, one atomic block      *)
(***************************************************************************)

\* Identities of the set objects that are still referenced: by the dict, or by
\* the iterator of a broadcast that is suspended in its loop.
UsedSets ==
    {set_id[r] : r \in DOMAIN set_id}
    \cup {frame[c].sid : c \in {x \in Conns : pc[x] = "bcast"}}
    \cup UNION {{tasks[c][i].f.sid : i \in {j \in DOMAIN tasks[c] : tasks[c][j].pc = "bcast"}}
                : c \in Conns}

\* set(): a new object, whose identity no live reference has.
new_set == CHOOSE i \in 1..(NRooms + 3 * NConns + 1) :
              i \notin UsedSets /\ \A j \in 1..(i - 1) : j \in UsedSets

ensure_room_always_new(M, room_id) ==
    [M EXCEPT !.ac = Put(M.ac, room_id, {}), !.so = Put(M.so, room_id, new_set)]

ensure_room(M, room_id) ==
    IF room_id \notin DOMAIN M.ac
    THEN [M EXCEPT !.ac = Put(M.ac, room_id, {}), !.so = Put(M.so, room_id, new_set)]
    ELSE M

existing_participants_after_add(M, room_id, websocket) ==
    {M.ui[conn] : conn \in {x \in M.ac[room_id] \cup {websocket} : x \in DOMAIN M.ui}}

existing_participants(M, room_id, websocket) ==
    {M.ui[conn] : conn \in {x \in M.ac[room_id] : x \in DOMAIN M.ui}}

\* The result: the manager after the block, the roster it computed, and the
\* members the room had before the insertion.
join_room_info_not_stored(M, websocket, room_id, data) ==
    LET M1 == ensure_room(M, room_id)
        M2 == [M1 EXCEPT !.ur = Put(M1.ur, websocket, room_id)]
        roster == existing_participants(M2, room_id, websocket)
        M3 == [M2 EXCEPT !.ac[room_id] = @ \cup {websocket}]
    IN [m |-> M3, roster |-> roster,
        before |-> IF room_id \in DOMAIN M.ac THEN M.ac[room_id] ELSE {}]

join_room(M, websocket, room_id, data) ==
    LET M1 == ensure_room(M, room_id)
        M2 == [M1 EXCEPT !.ur = Put(M1.ur, websocket, room_id),
                         !.ui = Put(M1.ui, websocket, data)]
        roster == existing_participants(M2, room_id, websocket)
        M3 == [M2 EXCEPT !.ac[room_id] = @ \cup {websocket}]
    IN [m |-> M3, roster |-> roster,
        before |-> IF room_id \in DOMAIN M.ac THEN M.ac[room_id] ELSE {}]

(***************************************************************************)
(* ConnectionManager.broadcast_to_room                                     *)
(***************************************************************************)

\* The set object the loop of line 141 iterates: the one the dict held when
\* the loop started. Once the room is deleted that object is empty and stays
\* so (a later room of the same id is another object).
iterated(M, f) ==
    IF f.room \in DOMAIN M.ac /\ M.so[f.room] = f.sid THEN M.ac[f.room] ELSE {}

\* One or more next() calls of the set iterator, up to the next await (a member
\* other than exclude) or the end of the loop. Every next() first compares the
\* set's size with the size the iterator started with and raises RuntimeError
\* ("Set changed size during iteration") when they differ. Otherwise the
\* members that were in the set when the loop started and are still in it are
\* yielded once each, in an order the hash table decides; a member added
\* meanwhile is yielded or not, depending on the slot it landed in.
advance_without_exclude(M, f) ==
    LET S == iterated(M, f) IN
    IF Cardinality(S) # f.si_used
    THEN {[res |-> "raise", f |-> f]}
    ELSE {[res |-> "await",
           f   |-> [f EXCEPT !.cur = x, !.visited = @ \cup {x}, !.pending = @ \ {x}]]
            : x \in S \ f.visited}
         \cup
         (IF f.pending \cap S = {} THEN {[res |-> "end", f |-> f]} ELSE {})

advance(M, f) ==
    LET S == iterated(M, f) IN
    IF Cardinality(S) # f.si_used
    THEN {[res |-> "raise", f |-> f]}
    ELSE {[res |-> "await",
           f   |-> [f EXCEPT !.cur = x, !.visited = @ \cup {x}, !.pending = @ \ {x}]]
            : x \in S \ (f.visited \cup {f.excl})}
         \cup
         (IF (f.pending \cap S) \ {f.excl} = {}
          THEN {[res |-> "end", f |-> f]} ELSE {})

\* Lines 150-153.  raised: the KeyError of line 152 when the room is gone.
RECURSIVE clean_up(_, _, _)
clean_up(M, room_id, ds) ==
    IF ds = <<>> THEN [m |-> M, raised |-> FALSE]
    ELSE IF room_id \notin DOMAIN M.ac THEN [m |-> M, raised |-> TRUE]
    ELSE clean_up(disconnect([M EXCEPT !.ac[room_id] = @ \ {Head(ds)}], Head(ds)),
                  room_id, Tail(ds))

\* What the broadcast does with one outcome of advance: suspend in the next
\* send ("await"), return after the clean-up ("return"), or raise ("raise").
settle(M, o) ==
    IF o.res = "await" THEN [res |-> "await", m |-> M, f |-> o.f]
    ELSE IF o.res = "raise" THEN [res |-> "raise", m |-> M, f |-> NoFrame]
    ELSE LET cl == clean_up(M, o.f.room, o.f.disconnected) IN
         [res |-> IF cl.raised THEN "raise" ELSE "return", m |-> cl.m, f |-> NoFrame]

\* Lines 133-141: the call up to its first await.
broadcast_to_any_room(M, f0) ==
    IF DOMAIN M.ac = {}
    THEN {[res |-> "noroom", m |-> M, f |-> NoFrame]}
    ELSE LET r  == CHOOSE x \in DOMAIN M.ac : TRUE
             f1 == [f0 EXCEPT !.room = r, !.sid = M.so[r],
                              !.si_used = Cardinality(M.ac[r]),
                              !.pending = M.ac[r]]
         IN {settle(M, o) : o \in advance(M, f1)}

broadcast_to_room(M, f0) ==
    IF f0.room \notin DOMAIN M.ac
    THEN {[res |-> "noroom", m |-> M, f |-> NoFrame]}
    ELSE LET f1 == [f0 EXCEPT !.sid = M.so[f0.room],
                              !.si_used = Cardinality(M.ac[f0.room]),
                              !.pending = M.ac[f0.room]]
         IN {settle(M, o) : o \in advance(M, f1)}

\* Lines 144-148 when the awaited send_text completes, then the loop goes on.
broadcast_resume(M, f, ok) ==
    LET f1 == IF ok THEN f ELSE [f EXCEPT !.disconnected = Append(@, f.cur)]
    IN {settle(M, o) : o \in advance(M, f1)}


(***************************************************************************)
(* The clients                                                             *)
(***************************************************************************)

Op(o, c, r, m) == [op |-> o, c |-> c, r |-> r, msg |-> m]

all_done(ts) == \A i \in DOMAIN ts : ts[i].pc = "done"

\* No coroutine is in the middle of a call: the endpoints wait in
\* receive_text (or have not started, or have ended) and no task is pending.
Quiescent ==
    /\ \A c \in Conns : pc[c] \in {"new", "receive", "done"}
    /\ \A c \in Conns : all_done(tasks[c])

\* WebSocket objects and room ids are interchangeable, so free clients are
\* numbered in the order they arrive, and so are the room ids they use.
InOrder(o) ==
    o.op = "join" =>
        /\ \A d \in 1..(o.c - 1) : pc[d] # "new"
        /\ \A q \in 1..(o.r - 1) : \E d \in Conns : ws_room[d] = q

\* Free clients may do anything at any time; scripted clients issue the next
\* operation of the script once the server has finished with the previous one.
ClientMay(o) ==
    \/ script = <<>> /\ InOrder(o)
    \/ /\ pos < Len(script)
       /\ script[pos + 1] = o
       /\ Quiescent

(***************************************************************************)
(* One step: the manager's new state, the coroutine's new position, and    *)
(* the record of what the step did.                                        *)
(***************************************************************************)

\*   op, c : the step and the connection whose coroutine (or task) took it
\*   msg   : the frame a "receive" step read
\*   kind  : the type of the message whose send_text the step resumed from
\*   ok    : whether that send_text succeeded
\*   res   : how the broadcast the step ran came out ("none": it ran none)
\*   left  : the connections disconnect() removed
Event(o, c, m, sent, res, M) ==
    [op |-> o, c |-> c, msg |-> m, kind |-> sent.kind, ok |-> sent.ok, res |-> res,
     left |-> M.left]

Commit(M, e, sent, client) ==
    /\ active_connections' = M.ac
    /\ set_id' = M.so
    /\ user_rooms' = M.ur
    /\ user_info' = M.ui
    /\ ev' = e
    /\ log' = IF script # <<>> /\ sent # NoSend THEN Append(log, sent) ELSE log
    /\ pos' = IF script # <<>> /\ client THEN pos + 1 ELSE pos
    /\ UNCHANGED script

\* The endpoint after its broadcast suspended, returned or raised.
\*   connect (lines 86-90): the log line reads active_connections[room_id], a
\*   KeyError when the room is gone; connect re-raises, the endpoint's
\*   "except Exception" logs and "finally" calls disconnect.
\*   a handler (lines 335, 354, 373): the exception is logged, the loop goes on.
after_broadcast(c, bo, cont) ==
    IF bo.res = "await" THEN [m |-> bo.m, pc |-> "bcast", f |-> bo.f]
    ELSE IF cont = "connect" /\ (bo.res = "raise" \/ ws_room[c] \notin DOMAIN bo.m.ac)
    THEN [m |-> disconnect(bo.m, c), pc |-> "done", f |-> NoFrame]
    ELSE [m |-> bo.m, pc |-> "receive", f |-> NoFrame]

\* A call that ran no broadcast and suspended nowhere.
Returned(M) == [res |-> "none", m |-> M, f |-> NoFrame]

Go(c, a, o, msg, sent, res, client) ==
    /\ pc' = [pc EXCEPT ![c] = a.pc]
    /\ frame' = [frame EXCEPT ![c] = a.f]
    /\ tasks' = a.m.tk
    /\ Commit(a.m, Event(o, c, msg, sent, res, a.m), sent, client)

(***************************************************************************)
(* websocket_endpoint                                                      *)
(***************************************************************************)

\* A client opens /ws/{room_id}: the endpoint runs up to "await accept()".
Open(c, r) ==
    /\ pc[c] = "new"
    /\ ClientMay(Op("join", c, r, NoMsg))
    /\ ws_room' = [ws_room EXCEPT ![c] = r]
    /\ Go(c, [m |-> Manager, pc |-> "accept", f |-> NoFrame],
          "open", NoMsg, NoSend, "none", TRUE)

\* accept() completes: lines 49-70 up to the send of room_joined; or it
\* raises, and the endpoint ends through finally.
AcceptDone(c, ok) ==
    /\ pc[c] = "accept"
    /\ UNCHANGED ws_room
    /\ IF ok
       THEN LET j == join_room(Manager, c, ws_room[c], user_data(c))
                f == [NoFrame EXCEPT !.room = ws_room[c], !.kind = "room_joined",
                                     !.subj = user_data(c).id, !.cur = c,
                                     !.roster = j.roster, !.before = j.before]
            IN Go(c, [m |-> j.m, pc |-> "send_joined", f |-> f],
                  "accept", NoMsg, NoSend, "none", FALSE)
       ELSE Go(c, [m |-> disconnect(Manager, c), pc |-> "done", f |-> NoFrame],
               "accept", NoMsg, [NoSend EXCEPT !.ok = FALSE], "none", FALSE)

\* send_to_user(room_joined) completes (lines 157-164), then lines 78-90.
RoomJoinedSent(c, ok) ==
    /\ pc[c] = "send_joined"
    /\ UNCHANGED ws_room
    /\ LET f    == frame[c]
           M    == IF ok THEN Manager ELSE disconnect(Manager, c)
           sent == [to |-> c, kind |-> "room_joined", subj |-> f.subj,
                    target |-> NoTarget, roster |-> f.roster, ok |-> ok]
           f0   == [NoFrame EXCEPT !.room = f.room, !.kind = "user_joined",
                                   !.subj = f.subj, !.excl = c,
                                   !.before = f.before, !.cont = "connect"]
       IN \E bo \in (IF f.roster # {} THEN broadcast_to_room(M, f0) ELSE {Returned(M)}) :
            Go(c, after_broadcast(c, bo, "connect"),
               "room_joined", NoMsg, sent, bo.res, FALSE)

\* The send_text a broadcast of this endpoint awaits completes (lines 144-148).
BroadcastSent(c, ok) ==
    /\ pc[c] = "bcast"
    /\ UNCHANGED ws_room
    /\ LET f    == frame[c]
           sent == [to |-> f.cur, kind |-> f.kind, subj |-> f.subj,
                    target |-> NoTarget, roster |-> {}, ok |-> ok]
       IN \E bo \in broadcast_resume(Manager, f, ok) :
            Go(c, after_broadcast(c, bo, f.cont),
               "broadcast", NoMsg, sent, bo.res, FALSE)

\* active_connections.get(room_id, set())
members(M, room_id) == IF room_id \in DOMAIN M.ac THEN M.ac[room_id] ELSE {}

\* Lines 320-323: the members of the room whose participant id is the target.
target_matches_any_room(M, room_id, target) ==
    {conn \in DOMAIN M.ui : M.ui[conn].id = target}

target_matches(M, room_id, target) ==
    {conn \in members(M, room_id) : conn \in DOMAIN M.ui /\ M.ui[conn].id = target}

\* What handling one received frame leads to, up to the next await
\* (lines 269-296, handle_webrtc_message, handle_media_state,
\* handle_chat_message): a set of [res, m, f, fin] like a broadcast's, with
\* res "send" for a send_to_user and "break" for leaving the loop.
handle(M, c, msg) ==
    LET room_id == ws_room[c]
        known   == c \in DOMAIN M.ui
        sender  == IF known THEN M.ui[c].id ELSE 0
        bc(kind, excl) == broadcast_to_room(M,
                             [NoFrame EXCEPT !.room = room_id, !.kind = kind,
                                             !.subj = sender, !.excl = excl,
                                             !.before = members(M, room_id),
                                             !.cont = "handler"])
        to_user(kind, w, g) ==
            {[res |-> "send", m |-> M,
              f |-> [NoFrame EXCEPT !.room = room_id, !.kind = kind, !.subj = sender,
                                    !.target = g, !.cur = w]]}
    IN
    IF msg.json = "invalid" THEN to_user("error", c, NoTarget)
    ELSE IF msg.json = "other" THEN {[res |-> "break", m |-> M, f |-> NoFrame]}
    ELSE IF msg.type \in WebRTCTypes
    THEN IF ~known THEN {Returned(M)}
         ELSE IF msg.target # NoTarget
         THEN IF target_matches(M, room_id, msg.target) = {} THEN {Returned(M)}
              ELSE UNION {to_user(msg.type, w, msg.target)
                            : w \in target_matches(M, room_id, msg.target)}
         ELSE bc(msg.type, c)
    ELSE IF msg.type = "media-state"
    THEN IF ~known THEN {Returned(M)} ELSE bc("media-state", c)
    ELSE IF msg.type = "chat"
    THEN IF ~known \/ ~msg.body THEN {Returned(M)} ELSE bc("chat", NoConn)
    ELSE IF msg.type = "ping" THEN to_user("pong", c, NoTarget)
    ELSE {Returned(M)}

after_handle(c, h) ==
    IF h.res = "send"
    THEN [m |-> h.m, f |-> h.f, pc |-> IF h.f.cur = c /\ h.f.kind \in {"pong", "error"}
                                       THEN "send_self" ELSE "send_target"]
    ELSE IF h.res = "break"
    THEN [m |-> disconnect(h.m, c), pc |-> "done", f |-> NoFrame]
    ELSE after_broadcast(c, h, "handler")

\* The endpoints that are handling a received frame.
Talking == {c \in Conns : pc[c] \in {"send_target", "send_self"}
                          \/ (pc[c] = "bcast" /\ frame[c].cont = "handler")}

\* receive_text() returns a frame of the client.
Receive(c, msg) ==
    /\ pc[c] = "receive"
    /\ Cardinality(Talking) < MaxTalking
    /\ ClientMay(Op("send", c, ws_room[c], msg))
    /\ UNCHANGED ws_room
    /\ \E h \in handle(Manager, c, msg) :
         Go(c, after_handle(c, h), "receive", msg, NoSend,
            IF h.res \in {"send", "break"} THEN "none" ELSE h.res, TRUE)

\* send_to_user to the target of an offer/answer/ice-candidate completes
\* (lines 326-327; the KeyError of line 327 is caught at line 335).
TargetSent(c, ok) ==
    /\ pc[c] = "send_target"
    /\ UNCHANGED ws_room
    /\ LET f    == frame[c]
           M    == IF ok THEN Manager ELSE disconnect(Manager, f.cur)
           sent == [to |-> f.cur, kind |-> f.kind, subj |-> f.subj,
                    target |-> f.target, roster |-> {}, ok |-> ok]
       IN Go(c, [m |-> M, pc |-> "receive", f |-> NoFrame],
             "target", NoMsg, sent, "none", FALSE)

\* send_to_user of a pong or an error to the sender completes (lines 284, 290).
ReplySent_then_break(c, ok) ==
    /\ pc[c] = "send_self"
    /\ UNCHANGED ws_room
    /\ LET f    == frame[c]
           sent == [to |-> c, kind |-> f.kind, subj |-> f.subj,
                    target |-> NoTarget, roster |-> {}, ok |-> ok]
       IN Go(c, [m |-> disconnect(Manager, c), pc |-> "done", f |-> NoFrame],
             "reply", NoMsg, sent, "none", FALSE)

ReplySent(c, ok) ==
    /\ pc[c] = "send_self"
    /\ UNCHANGED ws_room
    /\ LET f    == frame[c]
           M    == IF ok THEN Manager ELSE disconnect(Manager, c)
           sent == [to |-> c, kind |-> f.kind, subj |-> f.subj,
                    target |-> NoTarget, roster |-> {}, ok |-> ok]
       IN Go(c, [m |-> M, pc |-> "receive", f |-> NoFrame],
             "reply", NoMsg, sent, "none", FALSE)

\* receive_text() raises WebSocketDisconnect: caught at line 294, break,
\* finally (line 303).
Closed(c) ==
    /\ pc[c] = "receive"
    /\ ClientMay(Op("close", c, ws_room[c], NoMsg))
    /\ UNCHANGED ws_room
    /\ Go(c, [m |-> disconnect(Manager, c), pc |-> "done", f |-> NoFrame],
          "close", NoMsg, NoSend, "none", TRUE)

(***************************************************************************)
(* The user_left tasks                                                     *)
(***************************************************************************)

TaskGo(c, i, bo, o, sent) ==
    /\ tasks' = [bo.m.tk EXCEPT ![c][i] =
                    IF bo.res = "await" THEN [pc |-> "bcast", f |-> bo.f]
                    ELSE [pc |-> "done", f |-> NoFrame]]
    /\ UNCHANGED <<pc, frame, ws_room>>
    /\ Commit(bo.m, Event(o, c, NoMsg, sent, bo.res, bo.m), sent, FALSE)

\* The event loop starts the task: broadcast_to_room up to its first await.
TaskRun(c, i) ==
    /\ i \in DOMAIN tasks[c]
    /\ tasks[c][i].pc = "scheduled"
    /\ \E bo \in broadcast_to_room(Manager, tasks[c][i].f) :
         TaskGo(c, i, bo, "task", NoSend)

\* The send_text the task awaits completes.
TaskSent(c, i, ok) ==
    /\ i \in DOMAIN tasks[c]
    /\ tasks[c][i].pc = "bcast"
    /\ LET f    == tasks[c][i].f
           sent == [to |-> f.cur, kind |-> f.kind, subj |-> f.subj,
                    target |-> NoTarget, roster |-> {}, ok |-> ok]
       IN \E bo \in broadcast_resume(Manager, f, ok) :
            TaskGo(c, i, bo, "task", sent)

(***************************************************************************)
(* The HTTP endpoints: synchronous reads of the manager                    *)
(***************************************************************************)

RECURSIVE Sum(_, _)
Sum(f, S) == IF S = {} THEN 0
             ELSE LET x == CHOOSE y \in S : TRUE IN f[x] + Sum(f, S \ {x})

\* GET /health and GET /: active_rooms, total_connections.
health_check ==
    [active_rooms |-> Cardinality(DOMAIN active_connections),
     total_connections |->
        Sum([r \in DOMAIN active_connections |-> Cardinality(active_connections[r])],
            DOMAIN active_connections)]

participants_of(connections) ==
    {user_info[conn].id : conn \in {x \in connections : x \in DOMAIN user_info}}

\* GET /rooms.
list_rooms ==
    {[room_id |-> r, participant_count |-> Cardinality(active_connections[r]),
      participants |-> participants_of(active_connections[r])]
        : r \in DOMAIN active_connections}

\* GET /rooms/{room_id}.
get_room_info(room_id) ==
    LET connections == IF room_id \in DOMAIN active_connections
                       THEN active_connections[room_id] ELSE {}
    IN [room_id |-> room_id, exists |-> room_id \in DOMAIN active_connections,
        participant_count |-> Cardinality(connections),
        participants |-> participants_of(connections)]

(***************************************************************************)
(* Specifications                                                          *)
(***************************************************************************)

\* disconnect() creates at most one task per call and is called a bounded
\* number of times per connection: the task indices the actions range over.
TaskIds == 1..(NConns + 1)

Empty ==
    /\ active_connections = <<>>
    /\ set_id = <<>>
    /\ user_rooms = <<>>
    /\ user_info = <<>>
    /\ ws_room = [c \in Conns |-> 0]
    /\ pc = [c \in Conns |-> "new"]
    /\ frame = [c \in Conns |-> NoFrame]
    /\ tasks = [c \in Conns |-> <<>>]
    /\ ev = [op |-> "init", c |-> NoConn, msg |-> NoMsg, kind |-> "none", ok |-> TRUE,
             res |-> "none", left |-> {}]
    /\ pos = 0
    /\ log = <<>>

\* The state after construction (line 167): an empty manager, free clients.
Init == Empty /\ script = <<>>

\* Clients connect and disconnect, sends succeed or fail.
Lifecycle ==
    \/ \E c \in Conns, r \in Rooms : Open(c, r)
    \/ \E c \in Conns, ok \in BOOLEAN : AcceptDone(c, ok)
    \/ \E c \in Conns, ok \in BOOLEAN : RoomJoinedSent(c, ok)
    \/ \E c \in Conns, ok \in BOOLEAN : BroadcastSent(c, ok)
    \/ \E c \in Conns : Closed(c)
    \/ \E c \in Conns, i \in TaskIds : TaskRun(c, i)
    \/ \E c \in Conns, i \in TaskIds, ok \in BOOLEAN : TaskSent(c, i, ok)

Spec == Init /\ [][Lifecycle]_vars

\* Every client has joined (in rooms numbered in order of first use), every
\* connect has returned and no client has left yet: the clients now send
\* frames and disconnect, and sends succeed or fail.
InitTalk ==
    \E rooms \in [Conns -> Rooms] :
      /\ \A c \in Conns : \A q \in 1..(rooms[c] - 1) : \E d \in 1..(c - 1) : rooms[d] = q
      /\ active_connections =
            [r \in {rooms[c] : c \in Conns} |-> {c \in Conns : rooms[c] = r}]
      /\ set_id = [r \in {rooms[c] : c \in Conns} |-> r]
      /\ user_rooms = rooms
      /\ user_info = [c \in Conns |-> user_data(c)]
      /\ ws_room = rooms
      /\ pc = [c \in Conns |-> "receive"]
      /\ frame = [c \in Conns |-> NoFrame]
      /\ tasks = [c \in Conns |-> <<>>]
      /\ ev = [op |-> "init", c |-> NoConn, msg |-> NoMsg, kind |-> "none", ok |-> TRUE,
               res |-> "none", left |-> {}]
      /\ pos = 0
      /\ log = <<>>
      /\ script = <<>>

Talk ==
    \/ \E c \in Conns, msg \in Inbound : Receive(c, msg)
    \/ \E c \in Conns, ok \in BOOLEAN : TargetSent(c, ok)
    \/ \E c \in Conns, ok \in BOOLEAN : ReplySent(c, ok)
    \/ \E c \in Conns, ok \in BOOLEAN : BroadcastSent(c, ok)
    \/ \E c \in Conns : Closed(c)
    \/ \E c \in Conns, i \in TaskIds : TaskRun(c, i)
    \/ \E c \in Conns, i \in TaskIds, ok \in BOOLEAN : TaskSent(c, i, ok)

SpecTalk == InitTalk /\ [][Talk]_vars

\* What the event loop does on its own: a send_text that was awaited completes
\* and its coroutine resumes, a created task is started. The clients' frames
\* and closes (Receive, Closed) come when the clients choose, or never.
ServerStep ==
    \/ \E c \in Conns, ok \in BOOLEAN : TargetSent(c, ok)
    \/ \E c \in Conns, ok \in BOOLEAN : ReplySent(c, ok)
    \/ \E c \in Conns, ok \in BOOLEAN : BroadcastSent(c, ok)
    \/ \E c \in Conns, i \in TaskIds : TaskRun(c, i)
    \/ \E c \in Conns, i \in TaskIds, ok \in BOOLEAN : TaskSent(c, i, ok)

\* The joined clients, with an event loop that never stops running what is
\* ready to run.
SpecTalkFair == InitTalk /\ [][Talk]_vars /\ WF_vars(ServerStep)

\* Every room has one member (connection r has joined room r) and the other
\* clients have not arrived yet: clients join, send frames and disconnect,
\* and sends succeed or fail.
InitTwoRooms ==
    /\ active_connections = [r \in Rooms |-> {r}]
    /\ set_id = [r \in Rooms |-> r]
    /\ user_rooms = [c \in Rooms |-> c]
    /\ user_info = [c \in Rooms |-> user_data(c)]
    /\ ws_room = [c \in Conns |-> IF c \in Rooms THEN c ELSE 0]
    /\ pc = [c \in Conns |-> IF c \in Rooms THEN "receive" ELSE "new"]
    /\ frame = [c \in Conns |-> NoFrame]
    /\ tasks = [c \in Conns |-> <<>>]
    /\ ev = [op |-> "init", c |-> NoConn, msg |-> NoMsg, kind |-> "none", ok |-> TRUE,
             res |-> "none", left |-> {}]
    /\ pos = 0
    /\ log = <<>>
    /\ script = <<>>

SpecRooms == InitTwoRooms /\ [][Lifecycle \/ Talk]_vars

\* A scripted run: A joins r1, B joins r1, A sends an offer without target,
\* A disconnects, B disconnects; every send succeeds.
Trace(a, b, r) ==
    << Op("join", a, r, NoMsg), Op("join", b, r, NoMsg),
       Op("send", a, r, Msg("object", "offer", NoTarget, FALSE)),
       Op("close", a, r, NoMsg), Op("close", b, r, NoMsg) >>

InitScenario ==
    /\ Empty
    /\ \E a \in Conns, b \in Conns, r \in Rooms : a # b /\ script = Trace(a, b, r)

Scenario ==
    \/ \E c \in Conns, r \in Rooms : Open(c, r)
    \/ \E c \in Conns : AcceptDone(c, TRUE)
    \/ \E c \in Conns : RoomJoinedSent(c, TRUE)
    \/ \E c \in Conns : BroadcastSent(c, TRUE)
    \/ \E c \in Conns, msg \in Inbound : Receive(c, msg)
    \/ \E c \in Conns : Closed(c)
    \/ \E c \in Conns, i \in TaskIds : TaskRun(c, i)
    \/ \E c \in Conns, i \in TaskIds : TaskSent(c, i, TRUE)

SpecScenario == InitScenario /\ [][Scenario]_vars

(***************************************************************************)
(* Properties                                                              *)
(***************************************************************************)

Members(r) == IF r \in DOMAIN active_connections THEN active_connections[r] ELSE {}
MembersAfter(r) ==
    IF r \in DOMAIN active_connections' THEN active_connections'[r] ELSE {}

\* C1: a room id present in active_connections (and so in the /rooms listing)
\* has at least one member in every state between two coroutine steps; a room
\* whose last member was removed is absent.
C1_NoEmptyRoom ==
    /\ \A r \in DOMAIN active_connections : active_connections[r] # {}
    /\ \A x \in list_rooms : x.participant_count >= 1
    /\ \A r \in Rooms : get_room_info(r).exists <=> get_room_info(r).participant_count >= 1

\* The last member of a room has just been removed, and the room is gone.
C1_Witness ==
    \E c \in ev.left : ws_room[c] \notin DOMAIN active_connections

\* C2: the roster in the room_joined message being sent to a joiner is exactly
\* the participant records of the members the room had just before the joiner
\* was inserted, and never holds the joiner's own record.
C2_RosterIsMembersBefore ==
    \A c \in Conns :
        pc[c] = "send_joined" =>
            /\ frame[c].roster = {user_data(x) : x \in frame[c].before}
            /\ user_data(c) \notin frame[c].roster

C2_Witness ==
    \E c \in Conns : pc[c] = "send_joined" /\ Cardinality(frame[c].before) >= 2

\* The endpoint of c is in connect, at or after the send of room_joined.
InConnect(c) ==
    pc[c] = "send_joined" \/ (pc[c] = "bcast" /\ frame[c].cont = "connect")

\* The connections a suspended broadcast has sent to so far.
Delivered(c) == IF pc[c] = "bcast" THEN frame[c].visited ELSE {}

\* C3: when the connect of a joiner that is still a member is over,
\* user_joined for the joiner has been sent to every member the room had
\* before the join and still has, never to the joiner itself, and to nobody
\* when the room had no member.
C3_UserJoinedToAllOthers ==
    [][\A c \in Conns :
         (InConnect(c) /\ c \in DOMAIN user_rooms /\ pc'[c] \in {"receive", "done"}) =>
            /\ (frame[c].before \cap MembersAfter(ws_room[c])) \subseteq Delivered(c)
            /\ c \notin Delivered(c)
            /\ frame[c].before = {} => Delivered(c) = {}]_vars

TaskDelivered(t) == IF t.pc = "bcast" THEN t.f.visited ELSE {}

\* C4: when the user_left task of a departed connection is over, user_left
\* has been sent to every member that remained at the departure and is still
\* in the room, and never to the departed connection.
C4_UserLeftToAllRemaining ==
    [][\A c \in Conns : \A i \in DOMAIN tasks[c] :
         (tasks[c][i].pc # "done" /\ tasks'[c][i].pc = "done") =>
            /\ (tasks[c][i].f.before \cap MembersAfter(tasks[c][i].f.room))
                  \subseteq TaskDelivered(tasks[c][i])
            /\ c \notin TaskDelivered(tasks[c][i])]_vars

\* C10: a broadcast that is over has not raised, and has sent to every
\* connection that was a member when it started, is still one, and is not
\* the excluded one - whatever joined or left the room meanwhile.
BroadcastComplete(f) ==
    /\ ev'.res # "raise"
    /\ (f.pending \ {f.excl}) \cap MembersAfter(f.room) = {}

C10_BroadcastSurvivesChanges ==
    [][/\ \A c \in Conns :
            (pc[c] = "bcast" /\ pc'[c] # "bcast") => BroadcastComplete(frame[c])
       /\ \A c \in Conns : \A i \in DOMAIN tasks[c] :
            (tasks[c][i].pc = "bcast" /\ tasks'[c][i].pc = "done")
               => BroadcastComplete(tasks[c][i].f)]_vars


\* C5: when the handler of a member's frame is over, a chat has been sent to
\* every connection that was a member of the sender's room when the handler
\* started and still is, the sender included; an offer, answer or
\* ice-candidate without target and a media-state to every such member but
\* the sender, and never to the sender.
SentToAll(c, kind, before, delivered) ==
    IF kind = "chat"
    THEN (before \cap MembersAfter(ws_room[c])) \subseteq delivered
    ELSE /\ ((before \ {c}) \cap MembersAfter(ws_room[c])) \subseteq delivered
         /\ c \notin delivered

C5_ChatToAllOthersToPeers ==
    [][\A c \in Conns :
         /\ (pc[c] = "bcast" /\ frame[c].cont = "handler" /\ pc'[c] # "bcast")
               => SentToAll(c, frame[c].kind, frame[c].before, frame[c].visited)
         /\ (/\ pc[c] = "receive" /\ pc'[c] = "receive"
             /\ ev'.op = "receive" /\ ev'.c = c /\ ev'.res # "none"
             /\ c \in Members(ws_room[c]))
               => SentToAll(c, ev'.msg.type, Members(ws_room[c]), {})]_vars

\* C6: an offer, answer or ice-candidate of a member that carries a target is
\* sent to a member of the sender's room whose participant id is the target,
\* and to that connection only; when the room has no such member nothing is
\* sent (no error to the sender either) and nothing changes: the sender
\* stays a member.
C6_TargetedToOneMember ==
    [][\A c \in Conns :
         (/\ ev'.op = "receive" /\ ev'.c = c /\ pc[c] = "receive"
          /\ ev'.msg.type \in WebRTCTypes /\ ev'.msg.target # NoTarget
          /\ c \in DOMAIN user_info)
         => LET hit == {w \in Members(ws_room[c]) : user_data(w).id = ev'.msg.target}
            IN /\ \A d \in Conns \ {c} : pc'[d] = pc[d] /\ frame'[d] = frame[d]
               /\ UNCHANGED <<active_connections, user_rooms, user_info, tasks>>
               /\ IF hit # {}
                  THEN /\ pc'[c] = "send_target"
                       /\ frame'[c].cur \in hit
                       /\ frame'[c].kind = ev'.msg.type
                       /\ frame'[c].subj = user_data(c).id
                  ELSE /\ pc'[c] = "receive"
                       /\ frame'[c] = frame[c]]_vars

\* A member has sent an offer whose target is a participant that is not in
\* its room (it is in another room), and other members are in its room.
C6_Witness ==
    /\ ev.op = "receive" /\ ev.msg.type = "offer" /\ ev.msg.target \in Conns
    /\ ev.c \in DOMAIN user_info
    /\ pc[ev.c] = "receive"
    /\ ev.msg.target \in DOMAIN user_info
    /\ ev.msg.target \notin Members(ws_room[ev.c])
    /\ Cardinality(Members(ws_room[ev.c])) >= 2

\* C7: the leave path takes effect once per connection: at most one user_left
\* broadcast is ever created for a connection, a connection that has left is
\* in no room and has no user_rooms or user_info entry, and disconnect called
\* again for it (the endpoint's finally, a failed send_to_user) changes
\* nothing.
LeftOnce ==
    \A c \in Conns :
        /\ Len(tasks[c]) <= 1
        /\ tasks[c] # <<>> =>
              /\ c \notin DOMAIN user_rooms
              /\ c \notin DOMAIN user_info
              /\ \A r \in DOMAIN active_connections : c \notin active_connections[r]

SecondLeaveIsNoOp ==
    \A c \in Conns :
        (/\ c \notin DOMAIN user_rooms
         /\ ev'.c = c
         /\ \/ ev'.op = "close"
            \/ ev'.op \in {"room_joined", "reply"} /\ ~ev'.ok)
        => UNCHANGED <<active_connections, set_id, user_rooms, user_info, tasks>>

C7_LeaveTakesEffectOnce == []LeftOnce /\ [][SecondLeaveIsNoOp]_vars

\* The endpoint of a connection that a failed send had already removed ends:
\* its finally calls disconnect a second time.
C7_Witness ==
    /\ ev.op = "close"
    /\ ev.left = {}
    /\ Len(tasks[ev.c]) = 1
    /\ Members(ws_room[ev.c]) # {}

\* C8: the scripted run A joins r1, B joins r1, A sends an offer without
\* target, A disconnects, B disconnects, with every send succeeding, yields in
\* order: room_joined to A with an empty roster; room_joined to B with roster
\* [A] and user_joined for B to A; the offer to B with sender A, and not to A;
\* user_left for A to B, after which r1 exists with participant_count 1; and
\* after B's disconnect r1 is absent from the listing.
Sent(to, kind, subj, roster) ==
    [to |-> to, kind |-> kind, subj |-> subj, target |-> NoTarget,
     roster |-> roster, ok |-> TRUE]

Expected(a, b, n) ==
    SubSeq(<< Sent(a, "room_joined", user_data(a).id, {}),
              Sent(b, "room_joined", user_data(b).id, {user_data(a)}),
              Sent(a, "user_joined", user_data(b).id, {}),
              Sent(b, "offer", user_data(a).id, {}),
              Sent(b, "user_left", user_data(a).id, {}) >>, 1, n)

C8_Scenario ==
    (script # <<>> /\ Quiescent) =>
        LET a == script[1].c
            b == script[2].c
            r == script[1].r
        IN /\ pos = 0 => log = <<>>
           /\ pos = 1 => log = Expected(a, b, 1)
           /\ pos = 2 => log = Expected(a, b, 3)
           /\ pos = 3 => log = Expected(a, b, 4)
           /\ pos = 4 => /\ log = Expected(a, b, 5)
                         /\ get_room_info(r).exists
                         /\ get_room_info(r).participant_count = 1
           /\ pos = 5 => /\ log = Expected(a, b, 5)
                         /\ \A x \in list_rooms : x.room_id # r

C8_Witness == script # <<>> /\ Quiescent /\ pos = 5 /\ Len(log) = 5

\* C9: however the connects of two joiners of the same room interleave, the
\* room keeps the one set object it was created with, and every connection
\* that was inserted and has not gone through the leave path is a member of
\* it: no join overwrites the set or loses a member.
Inserted(c) == pc[c] \notin {"new", "accept", "done"}

NoLostMember ==
    \A a \in Conns, b \in Conns :
        (/\ a # b /\ Inserted(a) /\ Inserted(b)
         /\ ws_room[a] = ws_room[b]
         /\ tasks[a] = <<>> /\ tasks[b] = <<>>)
        => /\ ws_room[a] \in DOMAIN active_connections
           /\ {a, b} \subseteq active_connections[ws_room[a]]

SetKept ==
    \A r \in (DOMAIN set_id) \cap (DOMAIN set_id') : set_id'[r] = set_id[r]

C9_ConcurrentJoinsShareOneSet == []NoLostMember /\ [][SetKept]_vars

\* Two connects of the same new room are suspended in their room_joined
\* sends at the same time, and both connections are members.
C9_Witness ==
    \E a \in Conns, b \in Conns :
        /\ a # b
        /\ pc[a] = "send_joined" /\ pc[b] = "send_joined"
        /\ ws_room[a] = ws_room[b]
        /\ frame[a].before = {} /\ frame[b].before = {a}
        /\ {a, b} \subseteq Members(ws_room[a])


\* C13: a member from which no frame arrives is eventually no longer a
\* member of any room: every connection that is tracked is later heard from
\* (a frame of it is received) or is no longer tracked.
C13_SilentMemberIsRemoved ==
    \A c \in Conns :
        (c \in DOMAIN user_rooms) ~>
            (c \notin DOMAIN user_rooms \/ (ev.op = "receive" /\ ev.c = c))


\* The members a broadcast failed to deliver to, when the step that ends it
\* resumes from the send to f.cur.
Failed(f) ==
    {f.disconnected[i] : i \in DOMAIN f.disconnected}
    \cup (IF ev'.ok THEN {} ELSE {f.cur})

\* After the step, w has gone through the leave path.
HasLeft(w) ==
    /\ w \notin DOMAIN user_rooms'
    /\ w \notin DOMAIN user_info'
    /\ \A r \in DOMAIN active_connections' : w \notin active_connections'[r]
    /\ tasks'[w] # <<>>

\* The step leaves w as it was.
Untouched(w) ==
    /\ (w \in DOMAIN user_rooms) <=> (w \in DOMAIN user_rooms')
    /\ (w \in DOMAIN user_info) <=> (w \in DOMAIN user_info')
    /\ \A r \in Rooms : (w \in Members(r)) <=> (w \in MembersAfter(r))
    /\ Len(tasks'[w]) = Len(tasks[w])

FailedMembersLeave(f) ==
    /\ \A w \in Failed(f) : HasLeft(w)
    /\ \A w \in f.visited \ Failed(f) : Untouched(w)

\* C11: when a broadcast is over, every member it failed to deliver to has
\* gone through the leave path (in no room, no user_rooms or user_info entry,
\* a user_left task created for it), and the members it delivered to are as
\* they were.
C11_FailedMembersLeave ==
    [][/\ \A c \in Conns :
            (pc[c] = "bcast" /\ pc'[c] # "bcast") => FailedMembersLeave(frame[c])
       /\ \A c \in Conns : \A i \in DOMAIN tasks[c] :
            (tasks[c][i].pc = "bcast" /\ tasks'[c][i].pc = "done")
               => FailedMembersLeave(tasks[c][i].f)]_vars

\* C12: a joiner that has received room_joined and is tracked stays tracked,
\* stays a member of its room and goes on to its read loop, whatever happens
\* while its connect notifies the other members.
C12_JoinSurvivesNotifyFailure ==
    [][\A c \in Conns :
         (/\ ev'.c = c
          /\ \/ pc[c] = "send_joined" /\ ev'.op = "room_joined" /\ ev'.ok
             \/ pc[c] = "bcast" /\ frame[c].cont = "connect" /\ ev'.op = "broadcast"
          /\ c \in DOMAIN user_rooms)
         => /\ pc'[c] \in {"bcast", "receive"}
            /\ c \in DOMAIN user_rooms' /\ c \in DOMAIN user_info'
            /\ c \in MembersAfter(ws_room[c])]_vars


\* The step is the endpoint of c reading a frame from its client.
Reads(c) == pc[c] = "receive" /\ ev'.op = "receive" /\ ev'.c = c

\* The step changes nothing of the manager and no coroutine but c's.
OnlyTouches(c) ==
    /\ UNCHANGED <<active_connections, user_rooms, user_info, tasks>>
    /\ \A d \in Conns \ {c} : pc'[d] = pc[d] /\ frame'[d] = frame[d]

\* After the step the endpoint of c is sending an error message to c.
AnswersError(c) ==
    /\ pc'[c] = "send_self"
    /\ frame'[c].kind = "error"
    /\ frame'[c].cur = c

\* C14: when a member sends text that is not JSON, the one thing the server
\* does is send an error message to that sender; nothing is sent to anyone
\* else and no state changes; once the error is delivered the sender is
\* still a member and its endpoint is back in receive_text.
C14_InvalidJsonAnswered ==
    [][\A c \in Conns :
         /\ (Reads(c) /\ ev'.msg.json = "invalid" /\ c \in DOMAIN user_rooms)
               => AnswersError(c) /\ OnlyTouches(c)
         /\ (/\ pc[c] = "send_self" /\ frame[c].kind = "error"
             /\ ev'.op = "reply" /\ ev'.c = c /\ ev'.ok
             /\ c \in DOMAIN user_rooms)
               => /\ pc'[c] = "receive"
                  /\ OnlyTouches(c)
                  /\ c \in DOMAIN user_info'
                  /\ c \in MembersAfter(ws_room[c])]_vars

\* A member that shares its room has been sent the error message and is
\* reading again.
C14_Witness ==
    /\ ev.op = "reply" /\ ev.kind = "error" /\ ev.ok
    /\ pc[ev.c] = "receive"
    /\ ev.c \in Members(ws_room[ev.c])
    /\ Cardinality(Members(ws_room[ev.c])) >= 2

\* C15: when a member sends JSON that is not an object, or a chat without
\* the message field, the sender is answered with an error message, its
\* connection stays open and it remains a member of its room.
C15_MalformedAnswered ==
    [][\A c \in Conns :
         (/\ Reads(c) /\ c \in DOMAIN user_rooms
          /\ \/ ev'.msg.json = "other"
             \/ ev'.msg.json = "object" /\ ev'.msg.type = "chat" /\ ~ev'.msg.body)
         => /\ AnswersError(c)
            /\ c \in DOMAIN user_rooms'
            /\ c \in MembersAfter(ws_room[c])]_vars

\* C17: a frame of type offer, answer, ice-candidate, media-state, chat or
\* ping read from a connection that has no user_info entry is dropped:
\* nothing is sent to anyone, the sender included, and nothing changes.
C17_UnboundSenderDropped ==
    [][\A c \in Conns :
         (/\ Reads(c) /\ c \notin DOMAIN user_info
          /\ ev'.msg.json = "object"
          /\ ev'.msg.type \in WebRTCTypes \cup {"media-state", "chat", "ping"})
         => /\ pc'[c] = "receive"
            /\ frame'[c] = frame[c]
            /\ OnlyTouches(c)]_vars


\* C16: when the send of room_joined to a joiner fails, the joiner is removed
\* through the leave path and its connect sends no user_joined for it to the
\* members of the room.
C16_NoUserJoinedAfterFailedJoin ==
    [][\A c \in Conns :
         (/\ pc[c] = "send_joined" /\ ev'.op = "room_joined" /\ ev'.c = c /\ ~ev'.ok
          /\ c \in DOMAIN user_rooms)
         => /\ HasLeft(c)
            /\ pc'[c] # "bcast"]_vars

\* C18: between any two coroutine steps the three dictionaries agree: a
\* connection has a user_rooms entry exactly when it has a user_info entry,
\* it is then in the member set of that room, a member set holds only
\* connections whose user_rooms entry is that room, and the
\* total_connections of the health endpoints is the number of tracked
\* connections.
C18_IndexNeverDiverges ==
    /\ DOMAIN user_rooms = DOMAIN user_info
    /\ \A c \in DOMAIN user_rooms :
          /\ user_rooms[c] \in DOMAIN active_connections
          /\ c \in active_connections[user_rooms[c]]
    /\ \A r \in DOMAIN active_connections : \A c \in active_connections[r] :
          c \in DOMAIN user_rooms /\ user_rooms[c] = r
    /\ health_check.total_connections = Cardinality(DOMAIN user_rooms)

\* Two rooms have a member each and a third connection has left.
C18_Witness ==
    /\ Cardinality(DOMAIN active_connections) = 2
    /\ health_check.total_connections = 2
    /\ \E c \in Conns : tasks[c] # <<>> /\ c \notin DOMAIN user_rooms

\* C19: the user_left task of a departed connection sends only to
\* connections that were members of the room when it departed.
C19_UserLeftOnlyToCoMembers ==
    \A c \in Conns : \A i \in DOMAIN tasks[c] :
        tasks[c][i].pc = "bcast" => tasks[c][i].f.cur \in tasks[c][i].f.before


\* The awaits at which an endpoint is suspended in a send.
Sending == {"send_joined", "bcast", "send_target", "send_self"}

\* After the step, x is the connection c itself or a member of the room
\* whose id c's endpoint was opened with, which x was opened with too.
InRoomOf(c, x) ==
    \/ x = c
    \/ /\ ws_room[x] = ws_room[c]
       /\ x \in MembersAfter(ws_room[c])

\* C20: every send the server starts on behalf of a connection (room_joined,
\* user_joined, offer, answer, ice-candidate, media-state, chat, pong, error
\* from its endpoint; user_left from its task) goes to that connection or to a
\* member of the room of the same id; and a frame whose target is the id of a
\* member of another room makes the server send nothing and change nothing.
C20_RoomsIsolated ==
    [][\A c \in Conns :
         /\ (pc'[c] \in Sending /\ frame'[c] # frame[c])
               => InRoomOf(c, frame'[c].cur)
         /\ \A i \in DOMAIN tasks'[c] :
               (/\ tasks'[c][i].pc = "bcast"
                /\ (i \notin DOMAIN tasks[c] \/ tasks'[c][i] # tasks[c][i]))
               => InRoomOf(c, tasks'[c][i].f.cur)
         /\ (/\ Reads(c) /\ ev'.msg.json = "object" /\ ev'.msg.type \in WebRTCTypes
             /\ \E w \in DOMAIN user_rooms :
                   user_data(w).id = ev'.msg.target /\ user_rooms[w] # ws_room[c])
               => /\ pc'[c] = "receive"
                  /\ frame'[c] = frame[c]
                  /\ OnlyTouches(c)]_vars

\* Both rooms have members, and a member of one has sent an offer whose
\* target is a member of the other: its endpoint is reading again.
C20_Witness ==
    /\ Cardinality(DOMAIN active_connections) = 2
    /\ ev.op = "receive" /\ ev.msg.type = "offer"
    /\ ev.c \in DOMAIN user_rooms
    /\ ev.msg.target \in DOMAIN user_rooms
    /\ user_rooms[ev.msg.target] # user_rooms[ev.c]
    /\ pc[ev.c] = "receive"

====
